---- MODULE Spec2Model ----
(***************************************************************************)
(* ImplicitWrap (replay/models/implicit_wrap.py): the wrapper that puts an *)
(* `implicit` factor model behind the fit / predict / predict_pairs        *)
(* interface.                                                              *)
(*                                                                         *)
(* A log is a set of (user_idx, item_idx) interactions of relevance 1.     *)
(* A sparse matrix is the record (nrows, ncols, nz) that to_csr builds.    *)
(* self.csr_log, the local `matrix` of _fit and the local                  *)
(* `user_plays_pred` of _predict_pairs are references to matrix objects:   *)
(* each holds the contents of the object it refers to, and is_cache tells  *)
(* whether `user_plays_pred` and self.csr_log are the same object.         *)
(*                                                                         *)
(* The factor model is the external collaborator; it is modelled by its    *)
(* contract: fit(matrix) learns one row of user factors per matrix row and *)
(* one row of item factors per matrix column, recommend returns the k best *)
(* scoring items that are neither filtered nor (when asked) liked.  The    *)
(* score stands for the learned affinity: the item's popularity in the     *)
(* matrix the model was fitted on, ties broken by ascending item id.       *)
(***************************************************************************)
EXTENDS Integers, FiniteSets, Sequences, TLC

\* ---------------------------------------------------------------- bounds
MaxUser == 1
MaxItem == 1
MaxLogLen == 2
MaxK == 2

Users == 0..MaxUser
Items == 0..MaxItem
Interactions == Users \X Items
\* a log (and a list of pairs) is a non-empty relation
Logs == {L \in SUBSET Interactions :
            Cardinality(L) >= 1 /\ Cardinality(L) <= MaxLogLen}
Ks == 0..MaxK
UserLists == SUBSET Users \ {{}}
CandidateSets == SUBSET Items

\* Python's None where a matrix is expected
NoMatrix == [nrows |-> 0, ncols |-> 0, nz |-> {}]

VARIABLES
    model,      \* self.model: NoModel until fitted, then the fitted factors
    csr_log,    \* self.csr_log: NoMatrix (None) or the cached matrix
    fit_pc,     \* position of the _fit call: "idle", "assign", "fit"
    fit_matrix, \* the local `matrix` of the _fit call in progress
    last,       \* the _predict call that has returned and its result
    again,      \* the result of repeating that call with the same arguments
    pp_pc,      \* position of the _predict_pairs call: "idle", "score", "done"
    pp_call,    \* arguments and locals of the _predict_pairs call in progress
    pp_out      \* what the _predict_pairs call returned

vars == <<model, csr_log, fit_pc, fit_matrix, last, again,
          pp_pc, pp_call, pp_out>>

\* the factor model before its first fit: no factors
NoModel == [n_users |-> 0, n_items |-> 0, pop |-> <<>>, on |-> NoMatrix]
NoCall == [status |-> "NoCall"]

\* --------------------------------------------------------------- helpers
Max(S) == CHOOSE x \in S : \A y \in S : y <= x

UsersOf(log) == {p[1] : p \in log}
ItemsOf(log) == {p[2] : p \in log}

\* replay.utils.to_csr: shape (max user_idx + 1, max item_idx + 1), one
\* stored entry per interaction
to_csr(log) ==
    [nrows |-> Max(UsersOf(log)) + 1,
     ncols |-> Max(ItemsOf(log)) + 1,
     nz    |-> log]

\* matrix[user]: the stored column indices of one row
Row(m, user) == {p[2] : p \in {q \in m.nz : q[1] = user}}

RowInRange(m, user) == user >= 0 /\ user < m.nrows

\* ---------------------------------------------------------- factor model
\* model.fit(matrix)
Fitted(m) ==
    [n_users |-> m.nrows,
     n_items |-> m.ncols,
     pop     |-> [i \in 0..(m.ncols - 1) |->
                     Cardinality({p \in m.nz : p[2] = i})],
     on      |-> m]

Better(f, i, j) == f.pop[i] > f.pop[j] \/ (f.pop[i] = f.pop[j] /\ i <= j)

Best(f, S) == CHOOSE i \in S : \A j \in S : Better(f, i, j)

RECURSIVE TopK(_, _, _)
TopK(f, S, k) ==
    IF k <= 0 \/ S = {} THEN {}
    ELSE LET b == Best(f, S) IN {b} \cup TopK(f, S \ {b}, k - 1)

\* model.recommend(user, row, N, filter_already_liked_items, filter_items)
ModelRecommend(f, row, k, filter_liked, filter_items) ==
    TopK(f,
         {i \in 0..(f.n_items - 1) :
             /\ i \notin filter_items
             /\ (filter_liked => i \notin row)},
         k)

\* model.recommend(users, rows, N, False, items=items): the N best of `items`
ModelRecommendItems(f, items, n) == TopK(f, items, n)

\* ------------------------------------------------------------------ Init
Init ==
    /\ model = NoModel
    /\ csr_log = NoMatrix
    /\ fit_pc = "idle"
    /\ fit_matrix = NoMatrix
    /\ last = NoCall
    /\ again = NoCall
    /\ pp_pc = "idle"
    /\ pp_call = NoCall
    /\ pp_out = NoCall

\* the caller holds no returned result and no call is in progress
NoCallPending == last = NoCall /\ pp_pc = "idle"

\* ------------------------------------------------------------------ _fit
\* matrix = to_csr(log)
FitBuild(log) ==
    /\ fit_pc = "idle"
    /\ last = NoCall
    /\ fit_pc' = "assign"
    /\ fit_matrix' = to_csr(log)
    /\ UNCHANGED <<model, csr_log, last, again, pp_pc, pp_call, pp_out>>

\* the cached object overwritten in place with the new contents: whoever
\* holds the cached object sees them
FitAssignInPlace ==
    /\ fit_pc = "assign"
    /\ fit_pc' = "fit"
    /\ csr_log' = fit_matrix
    /\ pp_call' = IF pp_call # NoCall /\ pp_call.is_cache
                  THEN [pp_call EXCEPT !.user_plays_pred = fit_matrix]
                  ELSE pp_call
    /\ UNCHANGED <<model, fit_matrix, last, again, pp_pc, pp_out>>

FitCall == fit_pc = "idle" /\ \E log \in Logs : FitBuild(log)

\* self.csr_log = matrix: the attribute is bound to the new object; the
\* object it was bound to is left as it is, with whoever still holds it
FitAssign ==
    /\ fit_pc = "assign"
    /\ fit_pc' = "fit"
    /\ csr_log' = fit_matrix
    /\ pp_call' = IF pp_call = NoCall THEN pp_call
                  ELSE [pp_call EXCEPT !.is_cache = FALSE]
    /\ UNCHANGED <<model, fit_matrix, last, again, pp_pc, pp_out>>

\* self.model.fit(matrix) returns
FitModel ==
    /\ fit_pc = "fit"
    /\ fit_pc' = "idle"
    /\ model' = Fitted(fit_matrix)
    /\ fit_matrix' = NoMatrix
    /\ UNCHANGED <<csr_log, last, again, pp_pc, pp_call, pp_out>>

\* self.model.fit(matrix) raises: _fit ends with the exception
FitModelRaises ==
    /\ fit_pc = "fit"
    /\ fit_pc' = "idle"
    /\ fit_matrix' = NoMatrix
    /\ UNCHANGED <<model, csr_log, last, again, pp_pc, pp_call, pp_out>>

\* -------------------------------------------------------------- _predict
\* the operands of subtract exchanged
ItemsToDropSwapped(log, items) == items \ ItemsOf(log)

\* log.select("item_idx").subtract(items): the log's items not in `items`
ItemsToDrop(log, items) == ItemsOf(log) \ items

\* filter_seen_items not handed on to the factor model
PredictByUserUnfiltered(f, user_item_data, user, k, filter_seen_items, items_to_drop, k0) ==
    IF ~RowInRange(user_item_data, user)
    THEN [status |-> "IndexError", rows |-> {}]
    ELSE IF f = NoModel
    THEN [status |-> "NotFitted", rows |-> {}]
    ELSE IF user >= f.n_users
    THEN [status |-> "IndexError", rows |-> {}]
    ELSE IF k <= 0 /\ k0 # "ok"
    THEN [status |-> k0, rows |-> {}]
    ELSE [status |-> "ok",
          rows   |-> {<<user, i>> :
                        i \in ModelRecommend(f, Row(user_item_data, user), k,
                                             FALSE, items_to_drop)}]

\* predict_by_user: one group of users.groupby("user_idx").  k0 is what the
\* factor model does when asked for N <= 0 items ("ok": an empty top-N,
\* "LibraryError": it raises); the wrapper itself never looks at k.
PredictByUser(f, user_item_data, user, k, filter_seen_items, items_to_drop, k0) ==
    IF ~RowInRange(user_item_data, user)
    THEN [status |-> "IndexError", rows |-> {}]
    ELSE IF f = NoModel
    THEN [status |-> "NotFitted", rows |-> {}]
    ELSE IF user >= f.n_users
    THEN [status |-> "IndexError", rows |-> {}]
    ELSE IF k <= 0 /\ k0 # "ok"
    THEN [status |-> k0, rows |-> {}]
    ELSE [status |-> "ok",
          rows   |-> {<<user, i>> :
                        i \in ModelRecommend(f, Row(user_item_data, user), k,
                                             filter_seen_items, items_to_drop)}]

\* _predict: a group that raises fails the whole applyInPandas job
Predict(f, log, k, users, items, filter_seen_items, k0) ==
    LET items_to_drop  == ItemsToDrop(log, items)
        user_item_data == to_csr(log)
        per == [u \in users |->
                   PredictByUser(f, user_item_data, u, k, filter_seen_items,
                                 items_to_drop, k0)]
        failed == {u \in users : per[u].status # "ok"}
    IN  IF failed = {}
        THEN [status |-> "ok", rows |-> UNION {per[u].rows : u \in users}]
        ELSE [status |-> per[CHOOSE u \in failed : \A v \in failed : u <= v].status,
              rows   |-> {}]

K0Outcomes == {"ok", "LibraryError"}

Call(log, k, users, items, filter_seen_items, res) ==
    [log |-> log, k |-> k, users |-> users, items |-> items,
     filter_seen_items |-> filter_seen_items,
     status |-> res.status, rows |-> res.rows]

\* _predict fitting the factor model on the user-item matrix of its log
RecommendRefits(log, k, users, items, filter_seen_items, k0) ==
    /\ fit_pc = "idle"
    /\ NoCallPending
    /\ last' = Call(log, k, users, items, filter_seen_items,
                    Predict(model, log, k, users, items, filter_seen_items, k0))
    /\ model' = Fitted(to_csr(log))
    /\ UNCHANGED <<csr_log, fit_pc, fit_matrix, again, pp_pc, pp_call, pp_out>>

\* recommend: _predict reads self.model and returns
Recommend(log, k, users, items, filter_seen_items, k0) ==
    /\ fit_pc = "idle"
    /\ NoCallPending
    /\ last' = Call(log, k, users, items, filter_seen_items,
                    Predict(model, log, k, users, items, filter_seen_items, k0))
    /\ UNCHANGED <<model, csr_log, fit_pc, fit_matrix, again,
                   pp_pc, pp_call, pp_out>>

\* the caller repeats the call that has just returned, same arguments
RecommendAgain(k0) ==
    /\ fit_pc = "idle"
    /\ last # NoCall
    /\ again = NoCall
    /\ again' = Call(last.log, last.k, last.users, last.items,
                     last.filter_seen_items,
                     Predict(model, last.log, last.k, last.users, last.items,
                             last.filter_seen_items, k0))
    /\ UNCHANGED <<model, csr_log, fit_pc, fit_matrix, last,
                   pp_pc, pp_call, pp_out>>

\* the caller drops the returned rows
Return ==
    /\ last # NoCall
    /\ last' = NoCall
    /\ again' = NoCall
    /\ UNCHANGED <<model, csr_log, fit_pc, fit_matrix,
                   pp_pc, pp_call, pp_out>>

RecommendCall ==
    /\ fit_pc = "idle"
    /\ NoCallPending
    /\ \E log \in Logs, k \in Ks, users \in UserLists, items \in CandidateSets,
          filter_seen_items \in BOOLEAN, k0 \in K0Outcomes :
           /\ (k > 0 => k0 = "ok")
           /\ Recommend(log, k, users, items, filter_seen_items, k0)

RecommendRepeat ==
    /\ last # NoCall
    /\ \E k0 \in K0Outcomes : (last.k > 0 => k0 = "ok") /\ RecommendAgain(k0)

\* -------------------------------------------------------- _predict_pairs
LogArgs == Logs \cup {{}}

\* user_plays_pred = to_csr(log) if log else self.csr_log
\* (log = {} stands for the omitted log, None)
PairsRead(pairs, log) ==
    /\ pp_pc = "idle"
    /\ last = NoCall
    /\ pp_pc' = "score"
    /\ pp_call' = [pairs           |-> pairs,
                   log             |-> log,
                   user_plays_pred |-> IF log # {} THEN to_csr(log) ELSE csr_log,
                   is_cache        |-> log = {} /\ csr_log # NoMatrix]
    /\ UNCHANGED <<model, csr_log, fit_pc, fit_matrix, last, again, pp_out>>

\* lines 112-124: the distinct users and items of the pairs, the factor
\* model's ranking of `items` for each user, and the stacked grid
PredictPairs(f, user_plays_pred, pairs) ==
    LET users == UsersOf(pairs)
        items == ItemsOf(pairs)
    IN  IF \E u \in users : ~RowInRange(user_plays_pred, u)
        THEN [status |-> "IndexError", rows |-> {}]
        ELSE IF f = NoModel
        THEN [status |-> "NotFitted", rows |-> {}]
        ELSE IF \/ \E u \in users : u >= f.n_users
                \/ \E i \in items : i >= f.n_items
        THEN [status |-> "IndexError", rows |-> {}]
        ELSE [status |-> "ok",
              rows   |-> users \X ModelRecommendItems(f, items,
                                                      Cardinality(items))]

PairsScore ==
    /\ pp_pc = "score"
    /\ pp_pc' = "done"
    /\ LET res == IF pp_call.user_plays_pred = NoMatrix
                  THEN [status |-> "TypeError", rows |-> {}]
                  ELSE PredictPairs(model, pp_call.user_plays_pred,
                                    pp_call.pairs)
       IN  pp_out' = [pairs  |-> pp_call.pairs,
                      log    |-> pp_call.log,
                      status |-> res.status,
                      rows   |-> res.rows]
    /\ pp_call' = NoCall
    /\ UNCHANGED <<model, csr_log, fit_pc, fit_matrix, last, again>>

\* the caller drops the returned rows
PairsReturn ==
    /\ pp_pc = "done"
    /\ pp_pc' = "idle"
    /\ pp_out' = NoCall
    /\ UNCHANGED <<model, csr_log, fit_pc, fit_matrix, last, again,
                   pp_call>>

PairsCall ==
    /\ pp_pc = "idle"
    /\ \E pairs \in Logs, log \in LogArgs : PairsRead(pairs, log)

\* ------------------------------------------------------------ properties
RowsOf(call, u) == {r \in call.rows : r[1] = u}

\* C1: every row recommend returns has an item_idx of the candidate set
C1_ReturnedItemsInCandidates ==
    (last # NoCall /\ last.items # {}) =>
        \A r \in last.rows : r[2] \in last.items

\* C2: with filter_seen_items, no returned (user, item) is a nonzero entry
\* of that user's row of the matrix built from the log of the call
C2_NoSeenItemReturned ==
    (last # NoCall /\ last.filter_seen_items) =>
        \A r \in last.rows : r[2] \notin Row(to_csr(last.log), r[1])

\* a filtered call that returned rows to a user whose best items were seen
C2_Witness ==
    /\ last # NoCall
    /\ last.filter_seen_items
    /\ last.status = "ok"
    /\ \E u \in last.users :
        /\ RowsOf(last, u) # {}
        /\ ModelRecommend(model, Row(to_csr(last.log), u), last.k, FALSE,
                          ItemsOf(last.log) \ last.items)
               \cap Row(to_csr(last.log), u) # {}

\* C3: score_pairs returns exactly the input pairs, one row each
C3_ExactlyTheInputPairs ==
    (pp_pc = "done" /\ pp_out.status = "ok") => pp_out.rows = pp_out.pairs

\* C4: for k > 0 each requested user gets at most k rows, and fewer than k
\* only when fewer than k candidate items are eligible (candidates, minus
\* the user's seen items when filter_seen_items)
C4_FewerOnlyWhenExhausted ==
    (last # NoCall /\ last.status = "ok" /\ last.k > 0) =>
        \A u \in last.users :
            LET n == Cardinality(RowsOf(last, u))
                eligible == last.items \
                    (IF last.filter_seen_items
                     THEN Row(to_csr(last.log), u) ELSE {})
            IN  /\ n <= last.k
                /\ (n < last.k => Cardinality(eligible) < last.k)

\* C5: recommend for a user without interactions in the log does not fail
C5_UnknownUserServed ==
    (/\ last # NoCall
     /\ model # NoModel
     /\ last.k > 0
     /\ \E u \in last.users : u \notin UsersOf(last.log))
        => last.status = "ok"

\* C6: recommend with k <= 0 fails with InvalidKError and returns no rows
\* (stated for a fitted model and users the model and the log know)
C6_InvalidK ==
    (/\ last # NoCall
     /\ last.k <= 0
     /\ model # NoModel
     /\ \A u \in last.users :
            RowInRange(to_csr(last.log), u) /\ u < model.n_users) =>
        (last.status = "InvalidKError" /\ last.rows = {})

\* C7: a recommend call changes neither the factor model nor the cached
\* matrix, and the same call repeated returns the same (user, item) pairs
C7_RecommendIdempotent ==
    [][(last' # last \/ again' # again) =>
          /\ model' = model
          /\ csr_log' = csr_log
          /\ (again' # NoCall => again'.rows = last'.rows)]_vars

\* a call, repeated, that returned rows both times
C7_Witness ==
    /\ again # NoCall
    /\ again.status = "ok"
    /\ again.rows # {}
    /\ last.rows # {}

\* C8: an item of the log that is not a candidate is returned for no user,
\* whatever filter_seen_items is
C8_DroppedItemsNeverReturned ==
    last # NoCall =>
        \A r \in last.rows :
            ~(r[2] \in ItemsOf(last.log) /\ r[2] \notin last.items)

\* an unfiltered call that returned rows to a user whose best items
\* include an item of the log outside the candidate set
C8_Witness ==
    /\ last # NoCall
    /\ ~last.filter_seen_items
    /\ last.items # {}
    /\ last.status = "ok"
    /\ \E u \in last.users :
        /\ RowsOf(last, u) # {}
        /\ ModelRecommend(model, Row(to_csr(last.log), u), last.k, FALSE, {})
               \cap (ItemsOf(last.log) \ last.items) # {}

\* C9: fit binds self.csr_log to a newly built matrix and leaves the old
\* object alone: a score_pairs call without a log reads the cached matrix
\* whole, and the matrix it holds does not change while it is in flight
C9_CacheReplacedNotMutated ==
    [][/\ (fit_pc = "assign" /\ fit_pc' = "fit") => csr_log' = fit_matrix
       /\ (pp_pc = "idle" /\ pp_pc' = "score" /\ pp_call'.log = {}) =>
              pp_call'.user_plays_pred = csr_log
       /\ (pp_pc = "score" /\ pp_pc' = "score") =>
              pp_call'.user_plays_pred = pp_call.user_plays_pred]_vars

\* a score_pairs call in flight that holds the previous matrix after a fit
\* has replaced the cache
C9_Witness ==
    /\ pp_pc = "score"
    /\ pp_call.log = {}
    /\ pp_call.user_plays_pred # NoMatrix
    /\ ~pp_call.is_cache
    /\ csr_log # pp_call.user_plays_pred

\* C10: self.csr_log is the matrix the factor model was last fitted on
\* (None while no fit has succeeded); stated for the states between calls
\* of fit, where it is weakest
C10_CacheMatchesModel == fit_pc = "idle" => csr_log = model.on

\* -------------------------------------------------------- specifications
\* fit and recommend
Next ==
    \/ FitCall
    \/ FitAssign
    \/ FitModel
    \/ RecommendCall
    \/ RecommendRepeat
    \/ Return

Spec == Init /\ [][Next]_vars

\* fit, with a model.fit that may raise, and score_pairs, interleaved
NextPairs ==
    \/ FitCall
    \/ FitAssign
    \/ FitModel
    \/ FitModelRaises
    \/ PairsCall
    \/ PairsScore
    \/ PairsReturn

SpecPairs == Init /\ [][NextPairs]_vars

====
